---------------------------- MODULE Spec2Model ----------------------------
(***************************************************************************)
(* A model of the two watch implementations of the Kubernetes JavaScript   *)
(* client:                                                                 *)
(*   - WatchApi.watch       (src/unnamed/part_000): node-fetch + readline, *)
(*                          streams the open body line by line;            *)
(*   - WatchIterator.watch  (src/src/watch_iterator.ts): Configuration /   *)
(*                          httpApi, reads the whole body and splits it.   *)
(* Both are async generators.  The model follows one watch invocation from *)
(* the call of watch() through the consumer's pulls to the end of the      *)
(* sequence.                                                               *)
(*                                                                         *)
(* Text is modelled as a sequence of tokens.  "LF", "CR" and "SP" are the  *)
(* characters \n, \r and space.  Every other token stands for one          *)
(* indivisible piece of text:                                              *)
(*   "A"  {"type":"ADDED","object":<pod1>}                                 *)
(*   "M"  {"type":"MODIFIED","object":<pod1, changed>}                     *)
(*   "D"  {"type":"DELETED","object":<pod1>}                               *)
(*   "B"  {"type":"BOOKMARK","object":<resourceVersion 12345>}             *)
(*   "E"  {"type":"ERROR","object":{"code":410,...}}                       *)
(*   "F"  {"type":"FOO","object":<thing>}    (valid JSON, unknown type)    *)
(*   "K"  {"kind":"Status"}                  (valid JSON, no type/object)  *)
(*   "N"  null                               (valid JSON, not an object)   *)
(*   "X"  {"invalid json                     (not JSON)                    *)
(* Query-string keys are strings; query-string values and option strings   *)
(* are sequences of one-character strings, so that toString() is a real    *)
(* conversion.                                                             *)
(***************************************************************************)
EXTENDS Integers, Sequences, FiniteSets

\* ------------------------------------------------------------------ bounds

\* Longest response body, in tokens.
MaxLen == 3

\* Pulls the consumer makes after the sequence has ended.
MaxExtraPulls == 1

\* ------------------------------------------------------------------- text

LineTerminators == {"LF", "CR"}
WhiteSpace == {"SP", "CR", "LF"}
Atoms == {"A", "M", "D", "B", "E", "F", "K", "N", "X"}

\* The tokens the bodies are enumerated over.
Tokens == WhiteSpace \cup (Atoms \ {"D", "B"})

\* The five literals of the WatchEventType union.
WatchEventType == {"ADDED", "MODIFIED", "DELETED", "BOOKMARK", "ERROR"}

\* The value an atom denotes once parsed.  null has no properties; a value
\* without a property reads as "undefined" there.
AtomValue(a) ==
    CASE a = "A" -> [isNull |-> FALSE, type |-> "ADDED", object |-> "pod1"]
      [] a = "M" -> [isNull |-> FALSE, type |-> "MODIFIED", object |-> "pod1v2"]
      [] a = "D" -> [isNull |-> FALSE, type |-> "DELETED", object |-> "pod1"]
      [] a = "B" -> [isNull |-> FALSE, type |-> "BOOKMARK", object |-> "rv12345"]
      [] a = "E" -> [isNull |-> FALSE, type |-> "ERROR", object |-> "status410"]
      [] a = "F" -> [isNull |-> FALSE, type |-> "FOO", object |-> "thing"]
      [] a = "K" -> [isNull |-> FALSE, type |-> "undefined", object |-> "undefined"]
      [] OTHER   -> [isNull |-> TRUE, type |-> "undefined", object |-> "undefined"]

RECURSIVE SkipWs(_)
SkipWs(s) ==
    IF s # <<>> /\ Head(s) \in WhiteSpace THEN SkipWs(Tail(s)) ELSE s

\* Fault: a parser that answers an empty object for text that is not JSON.
JSONParseLenient(s) ==
    LET a == SkipWs(s) IN
    IF a # <<>> /\ Head(a) \in (Atoms \ {"X"}) /\ SkipWs(Tail(a)) = <<>>
    THEN [ok |-> TRUE, val |-> AtomValue(Head(a))]
    ELSE [ok |-> TRUE, val |-> AtomValue("K")]

\* JSON.parse(text): optional white space, one value, optional white space,
\* end of input.  ok = FALSE is the SyntaxError.
JSONParse(s) ==
    LET a == SkipWs(s) IN
    IF a = <<>> \/ Head(a) \notin (Atoms \ {"X"})
    THEN [ok |-> FALSE, val |-> AtomValue("N")]
    ELSE IF SkipWs(Tail(a)) = <<>>
         THEN [ok |-> TRUE, val |-> AtomValue(Head(a))]
         ELSE [ok |-> FALSE, val |-> AtomValue("N")]

\* Fault: a decoder that throws on an event of type ERROR.
DecodeThrowingOnErrorEvent(line) ==
    LET p == JSONParse(line) IN
    IF ~p.ok \/ p.val.isNull \/ p.val.type = "ERROR"
    THEN [thrown |-> TRUE, event |-> [type |-> "undefined", object |-> "undefined"]]
    ELSE [thrown |-> FALSE, event |-> [type |-> p.val.type, object |-> p.val.object]]

\* The body of the try block of both loops:
\*     const data = JSON.parse(line); yield {type: data.type, object: data.object}
\* thrown = TRUE when JSON.parse throws, or when data is null and reading
\* data.type throws a TypeError; both are caught and the line is skipped.
DecodeLine(line) ==
    LET p == JSONParse(line) IN
    IF ~p.ok \/ p.val.isNull
    THEN [thrown |-> TRUE, event |-> [type |-> "undefined", object |-> "undefined"]]
    ELSE [thrown |-> FALSE, event |-> [type |-> p.val.type, object |-> p.val.object]]

RECURSIVE TrimStart(_)
TrimStart(s) ==
    IF s # <<>> /\ Head(s) \in WhiteSpace THEN TrimStart(Tail(s)) ELSE s

RECURSIVE TrimEnd(_)
TrimEnd(s) ==
    IF s # <<>> /\ s[Len(s)] \in WhiteSpace
    THEN TrimEnd(SubSeq(s, 1, Len(s) - 1))
    ELSE s

\* String.prototype.trim
Trim(s) == TrimEnd(TrimStart(s))

\* bodyText.split('\n'): the pieces between LFs; the empty text gives one
\* empty piece.
RECURSIVE SplitLF(_, _)
SplitLF(s, cur) ==
    IF s = <<>> THEN <<cur>>
    ELSE IF Head(s) = "LF" THEN <<cur>> \o SplitLF(Tail(s), <<>>)
    ELSE SplitLF(Tail(s), Append(cur, Head(s)))

\* bodyText.split('\n').filter((line) => line.trim() !== '')
NonBlankLines(bodyText) ==
    SelectSeq(SplitLF(bodyText, <<>>), LAMBDA line : Trim(line) # <<>>)

\* --------------------------------------------------------------- readline
\* createInterface(body) reads the open body chunk by chunk.  Its state is
\* the unfinished line (buf) and whether the last chunk ended in CR
\* (sawReturn); a line ending is CR LF, LF, or a CR not followed by LF.

\* The pieces of s between line endings; the last piece is what follows the
\* last line ending (the unfinished line).
RECURSIVE SplitLineEndings(_, _)
SplitLineEndings(s, cur) ==
    IF s = <<>> THEN <<cur>>
    ELSE IF Head(s) = "LF" THEN <<cur>> \o SplitLineEndings(Tail(s), <<>>)
    ELSE IF Head(s) = "CR"
         THEN IF Len(s) >= 2 /\ s[2] = "LF"
              THEN <<cur>> \o SplitLineEndings(Tail(Tail(s)), <<>>)
              ELSE <<cur>> \o SplitLineEndings(Tail(s), <<>>)
    ELSE SplitLineEndings(Tail(s), Append(cur, Head(s)))

HasLineEnding(s) == \E i \in 1..Len(s) : s[i] \in LineTerminators

\* One 'data' chunk.  withinDelay: the chunk arrives within crlfDelay of a
\* chunk that ended in CR, so a leading LF belongs to that CR.
ReadlineWrite(rl, chunk, withinDelay) ==
    LET str  == IF rl.sawReturn /\ withinDelay /\ chunk # <<>> /\ Head(chunk) = "LF"
                THEN Tail(chunk) ELSE chunk
        full == rl.buf \o str
        parts == SplitLineEndings(full, <<>>)
    IN  IF HasLineEnding(str)
        THEN [lines |-> SubSeq(parts, 1, Len(parts) - 1),
              buf |-> parts[Len(parts)],
              sawReturn |-> full[Len(full)] = "CR"]
        ELSE [lines |-> <<>>, buf |-> full, sawReturn |-> FALSE]

\* Fault: the unfinished line is emitted twice at the end of the input.
ReadlineEndTwice(rl) == IF rl.buf # <<>> THEN <<rl.buf, rl.buf>> ELSE <<>>

\* Fault: the unfinished line is lost at the end of the input.
ReadlineEndNoFlush(rl) == <<>>

\* 'end' of the input: an unfinished, non-empty line is emitted as a line.
ReadlineEnd(rl) == IF rl.buf # <<>> THEN <<rl.buf>> ELSE <<>>

\* ------------------------------------------------------------- JS values

Undefined == [t |-> "undefined", s |-> <<>>, b |-> FALSE, n |-> 0]
JsString(s) == [t |-> "string", s |-> s, b |-> FALSE, n |-> 0]
JsBoolean(b) == [t |-> "boolean", s |-> <<>>, b |-> b, n |-> 0]
JsNumber(n) == [t |-> "number", s |-> <<>>, b |-> FALSE, n |-> n]

Digit(d) == <<"0", "1", "2", "3", "4", "5", "6", "7", "8", "9">>[d + 1]

RECURSIVE Decimal(_)
Decimal(n) == IF n < 10 THEN <<Digit(n)>> ELSE Append(Decimal(n \div 10), Digit(n % 10))

\* val.toString() of a string, a boolean or a non-negative integer.
ValToString(val) ==
    CASE val.t = "string"  -> val.s
      [] val.t = "boolean" -> IF val.b THEN <<"t", "r", "u", "e">>
                                       ELSE <<"f", "a", "l", "s", "e">>
      [] val.t = "number"  -> Decimal(val.n)

\* JS truthiness of a string, a boolean, a number or undefined.
Truthy(val) ==
    CASE val.t = "string"  -> val.s # <<>>
      [] val.t = "boolean" -> val.b
      [] val.t = "number"  -> val.n # 0
      [] OTHER -> FALSE

\* ------------------------------------------------------- URLSearchParams
\* A query is the list of [k, v] pairs of url.searchParams.

Count(q, k) == Cardinality({i \in 1..Len(q) : q[i].k = k})

FirstIndex(q, k) == CHOOSE i \in 1..Len(q) : q[i].k = k /\ \A j \in 1..(i - 1) : q[j].k # k

RECURSIVE DropKeyAfter(_, _, _)
DropKeyAfter(q, k, keep) ==
    IF q = <<>> THEN <<>>
    ELSE IF Head(q).k = k /\ keep = 0 THEN DropKeyAfter(Tail(q), k, 0)
    ELSE IF Head(q).k = k THEN <<Head(q)>> \o DropKeyAfter(Tail(q), k, 0)
    ELSE <<Head(q)>> \o DropKeyAfter(Tail(q), k, keep)

\* Fault: searchParams.append(k, v) in place of set: adds a pair, whatever
\* is there.
SearchParamsAppend(q, k, v) == Append(q, [k |-> k, v |-> v])

\* searchParams.set(k, v): the first pair named k takes the value and every
\* other pair named k is removed; without such a pair, one is appended.
SearchParamsSet(q, k, v) ==
    IF Count(q, k) = 0
    THEN Append(q, [k |-> k, v |-> v])
    ELSE LET i == FirstIndex(q, k)
             one == DropKeyAfter(q, k, 1)
         IN [one EXCEPT ![i] = [k |-> k, v |-> v]]

\* ------------------------------------------------------ the watch request

Absent == [t |-> "absent", s |-> <<>>, b |-> FALSE, n |-> 0]

\* Keys a caller's object may carry, in the order Object.entries lists them.
KeyOrder == <<"resourceVersion", "labelSelector", "fieldSelector",
              "allowWatchBookmarks", "timeoutMs", "watch", "pretty">>

OptionKeys == {KeyOrder[i] : i \in 1..Len(KeyOrder)}

True == <<"t", "r", "u", "e">>

\* private requestTimeoutMs: number = 30000 and timeoutMs = 30000
DefaultTimeoutMs == 30000

\* A destructuring default: the default replaces a missing or undefined value.
WithDefault(val, dflt) == IF val \in {Absent, Undefined} THEN dflt ELSE val

\* WatchApi.watch: watch=true first, then every entry of queryParams whose
\* value is not undefined, by searchParams.set.
RECURSIVE ApiSetEntries(_, _, _)
ApiSetEntries(q, o, i) ==
    IF i > Len(KeyOrder) THEN q
    ELSE LET k == KeyOrder[i] IN
         IF o[k] # Absent /\ o[k] # Undefined
         THEN ApiSetEntries(SearchParamsSet(q, k, ValToString(o[k])), o, i + 1)
         ELSE ApiSetEntries(q, o, i + 1)

ApiQuery(pathQuery, o) ==
    ApiSetEntries(SearchParamsSet(pathQuery, "watch", True), o, 1)

\* requestContext.setQueryParam(name, value) of the generated client: the
\* parameter is in the URL once, with this value.
SetQueryParam(q, k, v) == SearchParamsSet(q, k, v)

\* WatchIterator.watch: watch=true, then the three selectors when not
\* undefined, then allowWatchBookmarks=true when the option (default true)
\* is truthy.
IterQuery(pathQuery, o) ==
    LET resourceVersion == WithDefault(o["resourceVersion"], Undefined)
        labelSelector == WithDefault(o["labelSelector"], Undefined)
        fieldSelector == WithDefault(o["fieldSelector"], Undefined)
        allowWatchBookmarks == WithDefault(o["allowWatchBookmarks"], JsBoolean(TRUE))
        q0 == SetQueryParam(pathQuery, "watch", True)
        q1 == IF resourceVersion # Undefined
              THEN SetQueryParam(q0, "resourceVersion", ValToString(resourceVersion)) ELSE q0
        q2 == IF labelSelector # Undefined
              THEN SetQueryParam(q1, "labelSelector", ValToString(labelSelector)) ELSE q1
        q3 == IF fieldSelector # Undefined
              THEN SetQueryParam(q2, "fieldSelector", ValToString(fieldSelector)) ELSE q2
    IN  IF Truthy(allowWatchBookmarks)
        THEN SetQueryParam(q3, "allowWatchBookmarks", True) ELSE q3

\* Fault: the defaults of the destructuring are written into the object.
OptionsAfterReadWithDefaults(o) ==
    [o EXCEPT !["timeoutMs"] = WithDefault(@, JsNumber(DefaultTimeoutMs)),
              !["allowWatchBookmarks"] = WithDefault(@, JsBoolean(TRUE))]

\* The caller's object after the generator has read it: Object.entries and
\* the destructuring with defaults read properties and assign none, and the
\* object handed to applyToFetchOptions is a fresh one.
OptionsAfterRead(o) == o

\* ----------------------------------------------------------------- errors

NoFailure == [name |-> "none", hasCode |-> FALSE, code |-> 0,
              message |-> "", hasBody |-> FALSE, body |-> <<>>]

\* new ApiException(code, message, body, {})
ApiException(code, message, text) ==
    [name |-> "ApiException", hasCode |-> TRUE, code |-> code,
     message |-> message, hasBody |-> TRUE, body |-> text]

\* Fault: the status code is not handed to the WatchError.
WatchErrorWithoutCode(message, hasCode, code) ==
    [name |-> "WatchError", hasCode |-> FALSE, code |-> 0,
     message |-> message, hasBody |-> FALSE, body |-> <<>>]

\* new WatchError(message, statusCode): it has no field for a body.
WatchError(message, hasCode, code) ==
    [name |-> "WatchError", hasCode |-> hasCode, code |-> code,
     message |-> message, hasBody |-> FALSE, body |-> <<>>]

\* An error of the platform or of a collaborator, passed on as it is.
ForeignError(name, message) ==
    [name |-> name, hasCode |-> FALSE, code |-> 0,
     message |-> message, hasBody |-> FALSE, body |-> <<>>]

\* STATUS_CODES[code] of node:http; "" where it has no entry.
STATUS_CODES(code) ==
    CASE code = 200 -> "OK"
      [] code = 404 -> "Not Found"
      [] code = 410 -> "Gone"
      [] code = 500 -> "Internal Server Error"
      [] OTHER -> ""

\* a || b on strings: the empty (or missing) string is falsy.
OrElse(a, b) == IF a # "" THEN a ELSE b

\* response.statusText || STATUS_CODES[response.status] || 'Internal Server Error'
ApiStatusText(reason, code) ==
    OrElse(OrElse(reason, STATUS_CODES(code)), "Internal Server Error")

\* STATUS_CODES[response.httpStatusCode] || 'Unknown Error'
IterStatusText(code) == OrElse(STATUS_CODES(code), "Unknown Error")

\* ------------------------------------------------------------------ state

VARIABLES
    variant,     \* "api": WatchApi, "iter": WatchIterator
    config,      \* the Configuration the instance was constructed with
    pc,          \* where the generator stands
    pending,     \* a next() of the consumer is outstanding
    path,        \* the query pairs the path argument itself carries
    opts,        \* the caller's options / queryParams object
    query,       \* searchParams of the request URL, once built
    sent,        \* the requests dispatched to the transport
    authCalls,   \* calls of applyToFetchOptions / applySecurityAuthentication
    status,      \* status code of the response, 0 before it
    statusText,  \* response.statusText
    body,        \* the whole body the server sends
    wire,        \* the part of the body that has not arrived yet
    text,        \* what response.text() / response.body.text() has read
    rl,          \* readline: unfinished line and CR flag
    lineQueue,   \* lines readline has emitted and the loop has not taken
    closed,      \* the end of the body has been seen
    lines,       \* WatchIterator: the lines the loop has not reached yet
    events,      \* the events yielded to the consumer, in order
    failure,     \* the error a pull was rejected with
    failures,    \* how many pulls were rejected
    pulls,       \* next() calls made before the sequence ended
    extraPulls,  \* next() calls made after it ended
    parsed,      \* lines handed to JSON.parse
    aborted,     \* controller.abort() has run
    timeout,     \* the timer of AbortSignal.timeout: fired, and where
    cancel,      \* a return() of the consumer waits behind a pending next()
    cause,       \* what the transport call rejected with
    requestTimeoutMs,  \* the field of the WatchApi instance
    other,       \* the locals of a second sequence, while this one runs
    injected     \* a throw() of the consumer at a yield, and the events then

vars == <<variant, config, pc, pending, path, opts, query, sent, authCalls,
          status, statusText, body, wire, text, rl, lineQueue, closed, lines,
          events, failure, failures, pulls, extraPulls, parsed, aborted,
          timeout, cancel, cause, requestTimeoutMs, other, injected>>

Variants == {"api", "iter"}

\* AbortSignal.timeout(...): this.requestTimeoutMs of the WatchApi instance
\* as it is when the signal is made, or options.timeoutMs (default 30000)
\* of WatchIterator.watch.
TimeoutOf(v, o) ==
    IF v = "api" THEN requestTimeoutMs
    ELSE WithDefault(o["timeoutMs"], JsNumber(DefaultTimeoutMs)).n

\* authMethods.default: a KubeConfig, another SecurityAuthentication, or
\* none; cluster: kubeConfig.getCurrentCluster() returns one.
Configs == {[auth |-> "kubeconfig", cluster |-> TRUE],
            [auth |-> "kubeconfig", cluster |-> FALSE],
            [auth |-> "other", cluster |-> FALSE],
            [auth |-> "none", cluster |-> FALSE]}

KubeConfigs == {[auth |-> "kubeconfig", cluster |-> TRUE]}

NoOptions == [k \in OptionKeys |-> Absent]

\* No second sequence.
NoOther == [pc |-> "none"]

NoQuery == <<[k |-> "unbuilt", v |-> <<>>]>>
NoReadline == [buf |-> <<>>, sawReturn |-> FALSE]
NoTimeout == [fired |-> FALSE, at |-> "none", open |-> FALSE]
NoCause == [isError |-> FALSE, message |-> "none"]
NoThrow == [done |-> FALSE, events |-> 0]

\* What a generator starts with, and the instance's field.
InitLocals ==
    /\ pending = FALSE
    /\ path = <<>>
    /\ opts = NoOptions
    /\ query = NoQuery
    /\ sent = <<>>
    /\ authCalls = 0
    /\ status = 0
    /\ statusText = ""
    /\ body = <<>>
    /\ wire = <<>>
    /\ text = <<>>
    /\ rl = NoReadline
    /\ lineQueue = <<>>
    /\ closed = FALSE
    /\ lines = <<>>
    /\ events = <<>>
    /\ failure = NoFailure
    /\ failures = 0
    /\ pulls = 0
    /\ extraPulls = 0
    /\ parsed = 0
    /\ aborted = FALSE
    /\ timeout = NoTimeout
    /\ cancel = FALSE
    /\ cause = NoCause
    /\ injected = NoThrow
    /\ requestTimeoutMs = DefaultTimeoutMs

InitVars ==
    /\ pc = "idle"
    /\ InitLocals

\* createWatchIterator has not been called yet.
InitUnmade ==
    /\ pc = "unmade"
    /\ InitLocals


\* ---------------------------------------------------------------- actions

NoEvent == [type |-> "undefined", object |-> "undefined"]

\* Fault: the try block around the whole loop, so that the first line whose
\* decoding throws ends the loop.
RunToYieldStoppingAtError(ls, tried) ==
    IF ls = <<>>
    THEN [found |-> FALSE, event |-> NoEvent, rest |-> <<>>, tried |-> tried]
    ELSE LET d == DecodeLine(Head(ls)) IN
         IF d.thrown
         THEN [found |-> FALSE, event |-> NoEvent, rest |-> <<>>, tried |-> tried + 1]
         ELSE [found |-> TRUE, event |-> d.event, rest |-> Tail(ls), tried |-> tried + 1]

\* The synchronous for loop of WatchIterator.watch from its current line to
\* its next yield: lines whose decoding throws are skipped.
RECURSIVE RunToYield(_, _)
RunToYield(ls, tried) ==
    IF ls = <<>>
    THEN [found |-> FALSE, event |-> NoEvent, rest |-> <<>>, tried |-> tried]
    ELSE LET d == DecodeLine(Head(ls)) IN
         IF d.thrown
         THEN RunToYield(Tail(ls), tried + 1)
         ELSE [found |-> TRUE, event |-> d.event, rest |-> Tail(ls), tried |-> tried + 1]

\* Fault: the request goes out as a POST.
RequestAsPost(v, q, o) ==
    [method |-> "POST", query |-> q, timeoutMs |-> TimeoutOf(v, o),
     via |-> IF v = "api" THEN "node-fetch" ELSE "httpApi"]

\* The request as the transport receives it.
Request(v, q, o) ==
    [method |-> "GET", query |-> q, timeoutMs |-> TimeoutOf(v, o),
     via |-> IF v = "api" THEN "node-fetch" ELSE "httpApi"]

\* Fault: a watch() that is an async function running to its first await.
CallStartingAtOnce(PathSet, OptSet) ==
    /\ pc = "idle"
    /\ path' \in PathSet
    /\ opts' \in OptSet
    /\ pc' = "created"
    /\ authCalls' = authCalls + 1
    /\ UNCHANGED <<variant, config, pending, query, sent, status,
                   statusText, body, wire, text, rl, lineQueue, closed, lines,
                   events, failure, failures, pulls, extraPulls, parsed, aborted,
                   timeout, cancel, cause,
                   requestTimeoutMs, other, injected>>

\* watch(path, options): the call returns the generator object; none of the
\* generator's body has run.
Call(PathSet, OptSet) ==
    /\ pc = "idle"
    /\ path' \in PathSet
    /\ opts' \in OptSet
    /\ pc' = "created"
    /\ UNCHANGED <<variant, config, pending, query, sent, authCalls, status,
                   statusText, body, wire, text, rl, lineQueue, closed, lines,
                   events, failure, failures, pulls, extraPulls, parsed, aborted, timeout, cancel, cause,
                   requestTimeoutMs, other, injected>>

\* First next() on WatchApi.watch: the configuration checks, the URL, and
\* the call of applyToFetchOptions, at which the generator awaits.
ApiFirstPull ==
    /\ pc = "created"
    /\ variant = "api"
    /\ pulls' = pulls + 1
    /\ IF config.auth # "kubeconfig"
       THEN /\ failure' = ApiException(500,
                 "WatchApi requires KubeConfig as the authentication method", <<>>)
            /\ failures' = failures + 1
            /\ pc' = "failed"
            /\ UNCHANGED <<pending, query, authCalls, opts>>
       ELSE IF ~config.cluster
       THEN /\ failure' = ApiException(500, "No active cluster", <<>>)
            /\ failures' = failures + 1
            /\ pc' = "failed"
            /\ UNCHANGED <<pending, query, authCalls, opts>>
       ELSE /\ query' = ApiQuery(path, opts)
            /\ opts' = OptionsAfterRead(opts)
            /\ authCalls' = authCalls + 1
            /\ pc' = "auth"
            /\ pending' = TRUE
            /\ UNCHANGED <<failure, failures>>
    /\ UNCHANGED <<variant, config, path, sent, status, statusText, body,
                   wire, text, rl, lineQueue, closed, lines, events, extraPulls,
                   parsed, aborted, timeout, cancel, cause,
                   requestTimeoutMs, other, injected>>

\* First next() on WatchIterator.watch: the request context and its query;
\* then the authentication call if an authentication method is configured,
\* else the request is sent at once.
IterFirstPull ==
    /\ pc = "created"
    /\ variant = "iter"
    /\ pulls' = pulls + 1
    /\ pending' = TRUE
    /\ query' = IterQuery(path, opts)
    /\ opts' = OptionsAfterRead(opts)
    /\ IF config.auth # "none"
       THEN /\ authCalls' = authCalls + 1
            /\ pc' = "auth"
            /\ UNCHANGED sent
       ELSE /\ sent' = Append(sent, Request(variant, query', opts))
            /\ pc' = "fetch"
            /\ UNCHANGED authCalls
    /\ UNCHANGED <<variant, config, path, status, statusText, body, wire,
                   text, rl, lineQueue, closed, lines, events, failure, failures,
                   extraPulls, parsed, aborted, timeout, cancel, cause,
                   requestTimeoutMs, other, injected>>

\* The authentication call resolves: the signal is attached and the request
\* goes to the transport (fetch, or configuration.httpApi.send).
AuthDone ==
    /\ pc = "auth"
    /\ sent' = Append(sent, Request(variant, query, opts))
    /\ pc' = "fetch"
    /\ UNCHANGED <<variant, config, pending, path, opts, query, authCalls, status,
                   statusText, body, wire, text, rl, lineQueue, closed, lines,
                   events, failure, failures, pulls, extraPulls, parsed, aborted, timeout, cancel, cause,
                   requestTimeoutMs, other, injected>>

\* The authentication call rejects: neither variant catches it.
AuthFail ==
    /\ pc = "auth"
    /\ failure' = ForeignError("Error", "authentication failed")
    /\ failures' = failures + 1
    /\ pc' = "failed"
    /\ pending' = FALSE
    /\ UNCHANGED <<variant, config, path, opts, query, sent, authCalls, status,
                   statusText, body, wire, text, rl, lineQueue, closed, lines,
                   events, pulls, extraPulls, parsed, aborted, timeout, cancel, cause,
                   requestTimeoutMs, other, injected>>

\* Messages of the errors a transport call rejects with.
CauseMessages == {"connect ECONNREFUSED", "self-signed certificate"}

\* Fault: the WatchError is given the fixed message whatever the cause.
FetchFailLosingMessage(isError) ==
    /\ pc = "fetch"
    /\ \E message \in CauseMessages :
        /\ cause' = [isError |-> isError \/ variant = "api", message |-> message]
        /\ failure' = WatchError("Failed to connect to watch endpoint", FALSE, 0)
    /\ failures' = failures + 1
    /\ pc' = "failed"
    /\ pending' = FALSE
    /\ aborted' = (variant = "api")
    /\ UNCHANGED <<variant, config, path, opts, query, sent, authCalls, status,
                   statusText, body, wire, text, rl, lineQueue, closed, lines,
                   events, pulls, extraPulls, parsed, timeout, cancel,
                   requestTimeoutMs, other, injected>>

\* The transport call rejects before a response.  WatchApi lets the error of
\* fetch pass (its finally aborts the controller); node-fetch rejects with
\* an Error.  WatchIterator wraps the cause in a WatchError with the cause's
\* message, or a fixed message when the cause is not an Error.
FetchFail(isError) ==
    /\ pc = "fetch"
    /\ \E message \in CauseMessages :
        /\ cause' = [isError |-> isError \/ variant = "api", message |-> message]
        /\ failure' = IF variant = "api"
                      THEN ForeignError("FetchError", message)
                      ELSE IF isError
                           THEN WatchError(message, FALSE, 0)
                           ELSE WatchError("Failed to connect to watch endpoint", FALSE, 0)
    /\ failures' = failures + 1
    /\ pc' = "failed"
    /\ pending' = FALSE
    /\ aborted' = (variant = "api")
    /\ UNCHANGED <<variant, config, path, opts, query, sent, authCalls, status,
                   statusText, body, wire, text, rl, lineQueue, closed, lines,
                   events, pulls, extraPulls, parsed, timeout, cancel,
                   requestTimeoutMs, other, injected>>

\* The response arrives with its status.  WatchApi: a status other than 200
\* starts reading the body as text for the ApiException; 200 puts readline
\* on the open body.  WatchIterator: a status other than 200 throws the
\* WatchError at once; 200 starts response.body.text().
Respond(StatusSet, ReasonSet, BodySet) ==
    /\ pc = "fetch"
    /\ \E st \in StatusSet, reason \in ReasonSet, b \in BodySet :
        /\ status' = st
        /\ statusText' = IF variant = "api" THEN reason ELSE ""
        /\ body' = b
        /\ wire' = b
        /\ IF variant = "iter" /\ st # 200
           THEN /\ failure' = WatchError(IterStatusText(st), TRUE, st)
                /\ failures' = failures + 1
                /\ pc' = "failed"
                /\ pending' = FALSE
           ELSE /\ pc' = IF st # 200 THEN "errtext"
                         ELSE IF variant = "api" THEN "reading" ELSE "text"
                /\ UNCHANGED <<failure, failures, pending>>
    /\ UNCHANGED <<variant, config, path, opts, query, sent, authCalls, text, rl,
                   lineQueue, closed, lines, events, pulls, extraPulls, parsed,
                   aborted, timeout, cancel, cause,
                   requestTimeoutMs, other, injected>>

\* A chunk of the body reaches readline (WatchApi, status 200).  The lines
\* it completes are queued for the for-await loop.  Once the signal has
\* aborted, node-fetch has destroyed the body and nothing more arrives.
ReadlineData ==
    /\ variant = "api"
    /\ pc \in {"reading", "yielded"}
    /\ ~timeout.fired
    /\ wire # <<>>
    /\ \E n \in 1..Len(wire), withinDelay \in BOOLEAN :
        LET r == ReadlineWrite(rl, SubSeq(wire, 1, n), withinDelay) IN
        /\ wire' = SubSeq(wire, n + 1, Len(wire))
        /\ rl' = [buf |-> r.buf, sawReturn |-> r.sawReturn]
        /\ lineQueue' = lineQueue \o r.lines
    /\ UNCHANGED <<variant, config, pc, pending, path, opts, query, sent,
                   authCalls, status, statusText, body, text, closed, lines,
                   events, failure, failures, pulls, extraPulls, parsed, aborted, timeout, cancel, cause,
                   requestTimeoutMs, other, injected>>

\* The body ends (WatchApi, status 200): readline emits an unfinished line
\* and closes.  A body the abort destroyed does not end this way.
ReadlineClose ==
    /\ variant = "api"
    /\ pc \in {"reading", "yielded"}
    /\ ~timeout.fired
    /\ wire = <<>>
    /\ ~closed
    /\ lineQueue' = lineQueue \o ReadlineEnd(rl)
    /\ rl' = NoReadline
    /\ closed' = TRUE
    /\ UNCHANGED <<variant, config, pc, pending, path, opts, query, sent,
                   authCalls, status, statusText, body, wire, text, lines, events,
                   failure, failures, pulls, extraPulls, parsed, aborted, timeout, cancel, cause,
                   requestTimeoutMs, other, injected>>

\* A chunk of the body reaches a pending text() call.
TextData ==
    /\ pc \in {"errtext", "text"}
    /\ wire # <<>>
    /\ \E n \in 1..Len(wire) :
        /\ text' = text \o SubSeq(wire, 1, n)
        /\ wire' = SubSeq(wire, n + 1, Len(wire))
    /\ UNCHANGED <<variant, config, pc, pending, path, opts, query, sent,
                   authCalls, status, statusText, body, rl, lineQueue, closed,
                   lines, events, failure, failures, pulls, extraPulls, parsed,
                   aborted, timeout, cancel, cause,
                   requestTimeoutMs, other, injected>>

\* WatchApi, status other than 200: response.text() resolves and the
\* ApiException is thrown; the finally block aborts the controller.
ApiErrorText ==
    /\ pc = "errtext"
    /\ wire = <<>>
    /\ closed' = TRUE
    /\ failure' = ApiException(status, ApiStatusText(statusText, status), text)
    /\ failures' = failures + 1
    /\ pc' = "failed"
    /\ pending' = FALSE
    /\ aborted' = TRUE
    /\ UNCHANGED <<variant, config, path, opts, query, sent, authCalls, status,
                   statusText, body, wire, text, rl, lineQueue, lines, events,
                   pulls, extraPulls, parsed, timeout, cancel, cause,
                   requestTimeoutMs, other, injected>>

\* WatchIterator, status 200: response.body.text() resolves; the text is
\* split and filtered and the loop runs to its first yield, or to its end.
IterBodyText ==
    /\ pc = "text"
    /\ wire = <<>>
    /\ closed' = TRUE
    /\ LET r == RunToYield(NonBlankLines(text), 0) IN
        /\ lines' = r.rest
        /\ parsed' = parsed + r.tried
        /\ events' = IF r.found THEN Append(events, r.event) ELSE events
        /\ pc' = IF r.found THEN "yielded" ELSE "done"
    /\ pending' = FALSE
    /\ UNCHANGED <<variant, config, path, opts, query, sent, authCalls, status,
                   statusText, body, wire, text, rl, lineQueue, failure, failures,
                   pulls, extraPulls, aborted, timeout, cancel, cause,
                   requestTimeoutMs, other, injected>>

\* Fault: the authentication step is run again for every line.
ApiNextLineAuthenticating ==
    /\ pc = "reading"
    /\ lineQueue # <<>>
    /\ LET d == DecodeLine(Head(lineQueue)) IN
        /\ events' = IF d.thrown THEN events ELSE Append(events, d.event)
        /\ pc' = IF d.thrown THEN "reading" ELSE "yielded"
        /\ pending' = d.thrown
    /\ lineQueue' = Tail(lineQueue)
    /\ parsed' = parsed + 1
    /\ authCalls' = authCalls + 1
    /\ UNCHANGED <<variant, config, path, opts, query, sent, status,
                   statusText, body, wire, text, rl, closed, lines, failure,
                   failures, pulls, extraPulls, aborted, timeout, cancel, cause,
                   requestTimeoutMs, other, injected>>

\* WatchApi: the for-await loop takes the next line; a line that decodes is
\* yielded, a line whose decoding throws is skipped.
ApiNextLine ==
    /\ pc = "reading"
    /\ lineQueue # <<>>
    /\ LET d == DecodeLine(Head(lineQueue)) IN
        /\ events' = IF d.thrown THEN events ELSE Append(events, d.event)
        /\ pc' = IF d.thrown THEN "reading" ELSE "yielded"
        /\ pending' = d.thrown
    /\ lineQueue' = Tail(lineQueue)
    /\ parsed' = parsed + 1
    /\ UNCHANGED <<variant, config, path, opts, query, sent, authCalls, status,
                   statusText, body, wire, text, rl, closed, lines, failure,
                   failures, pulls, extraPulls, aborted, timeout, cancel, cause,
                   requestTimeoutMs, other, injected>>

\* WatchApi: readline has closed and no line is left; the loop ends, the
\* finally block aborts the controller and the generator returns.
ApiLoopEnd ==
    /\ pc = "reading"
    /\ lineQueue = <<>>
    /\ closed
    /\ pc' = "done"
    /\ pending' = FALSE
    /\ aborted' = TRUE
    /\ UNCHANGED <<variant, config, path, opts, query, sent, authCalls, status,
                   statusText, body, wire, text, rl, lineQueue, closed, lines,
                   events, failure, failures, pulls, extraPulls, parsed, timeout,
                   cancel, cause,
                   requestTimeoutMs, other, injected>>

\* next() after an event.  WatchApi goes back to awaiting a line;
\* WatchIterator runs its loop to the next yield, or to its end.  With a
\* return() waiting, the generator takes that first.
Pull ==
    /\ pc = "yielded"
    /\ ~cancel
    /\ pulls' = pulls + 1
    /\ IF variant = "api"
       THEN /\ pc' = "reading"
            /\ pending' = TRUE
            /\ UNCHANGED <<lines, parsed, events>>
       ELSE LET r == RunToYield(lines, 0) IN
            /\ lines' = r.rest
            /\ parsed' = parsed + r.tried
            /\ events' = IF r.found THEN Append(events, r.event) ELSE events
            /\ pc' = IF r.found THEN "yielded" ELSE "done"
            /\ pending' = FALSE
    /\ UNCHANGED <<variant, config, path, opts, query, sent, authCalls, status,
                   statusText, body, wire, text, rl, lineQueue, closed, failure,
                   failures, extraPulls, aborted, timeout, cancel, cause,
                   requestTimeoutMs, other, injected>>

\* Fault: a pull after the end fails again.
PullAfterEndRaisingAgain ==
    /\ pc \in {"done", "failed", "returned"}
    /\ extraPulls < MaxExtraPulls
    /\ extraPulls' = extraPulls + 1
    /\ failures' = failures + 1
    /\ UNCHANGED <<variant, config, pc, pending, path, opts, query, sent,
                   authCalls, status, statusText, body, wire, text, rl, lineQueue,
                   closed, lines, events, failure, pulls, parsed, aborted,
                   timeout, cancel, cause, requestTimeoutMs, other, injected>>

\* next() on a generator that has returned or thrown: it reports completion.
PullAfterEnd ==
    /\ pc \in {"done", "failed", "returned"}
    /\ extraPulls < MaxExtraPulls
    /\ extraPulls' = extraPulls + 1
    /\ UNCHANGED <<variant, config, pc, pending, path, opts, query, sent,
                   authCalls, status, statusText, body, wire, text, rl, lineQueue,
                   closed, lines, events, failure, failures, pulls, parsed, aborted, timeout, cancel, cause,
                   requestTimeoutMs, other, injected>>

\* The transport rejects a pending call, and a pending read of the body,
\* when the signal attached to the request aborts.
HonoursSignal(via) == via \in {"node-fetch", "httpApi"}

AbortMessage == "The operation was aborted."

\* The pull that is pending fails with the abort: the error of fetch, of
\* text() or of the line iterator passes as it is, and WatchApi's finally
\* block aborts the controller; WatchIterator wraps what send rejected with.
AbortFailure ==
    IF variant = "iter" /\ pc = "fetch"
    THEN WatchError(AbortMessage, FALSE, 0)
    ELSE ForeignError("AbortError", AbortMessage)

\* Fault: the signal is not handed to the transport, so that the timer
\* fires without effect.
TimeoutUnattached ==
    /\ sent # <<>>
    /\ ~timeout.fired
    /\ timeout' = [fired |-> TRUE, at |-> pc, open |-> ~closed]
    /\ UNCHANGED <<variant, config, pc, pending, path, opts, query, sent,
                   authCalls, status, statusText, body, wire, text, rl, lineQueue,
                   closed, lines, events, failure, failures, pulls, extraPulls,
                   parsed, aborted, cancel, cause,
                   requestTimeoutMs, other, injected>>

\* The timer of AbortSignal.timeout fires: the signal attached to the
\* request aborts.  A pending fetch / send, a pending text() and a line
\* iterator that waits on the open body reject; lines readline has already
\* emitted are still delivered, and what is held in memory is not touched.
Timeout ==
    /\ sent # <<>>
    /\ ~timeout.fired
    /\ timeout' = [fired |-> TRUE, at |-> pc, open |-> ~closed]
    /\ IF /\ HonoursSignal(sent[1].via)
          /\ \/ pc \in {"fetch", "errtext", "text"}
             \/ pc = "reading" /\ lineQueue = <<>> /\ ~closed
       THEN /\ failure' = AbortFailure
            /\ failures' = failures + 1
            /\ pc' = "failed"
            /\ pending' = FALSE
            /\ aborted' = (aborted \/ variant = "api")
            /\ cause' = IF pc = "fetch"
                        THEN [isError |-> TRUE, message |-> AbortMessage]
                        ELSE cause
       ELSE UNCHANGED <<failure, failures, pc, pending, aborted, cause>>
    /\ UNCHANGED <<variant, config, path, opts, query, sent, authCalls, status,
                   statusText, body, wire, text, rl, lineQueue, closed, lines,
                   events, pulls, extraPulls, parsed, cancel,
                   requestTimeoutMs, other, injected>>

\* WatchApi: the loop asks for a line of a body the abort has destroyed and
\* no emitted line is left: the line iterator throws outside the inner try,
\* the finally block aborts the controller and the pull fails.
ApiStreamError ==
    /\ variant = "api"
    /\ pc = "reading"
    /\ timeout.fired
    /\ ~closed
    /\ lineQueue = <<>>
    /\ failure' = AbortFailure
    /\ failures' = failures + 1
    /\ pc' = "failed"
    /\ pending' = FALSE
    /\ aborted' = TRUE
    /\ UNCHANGED <<variant, config, path, opts, query, sent, authCalls, status,
                   statusText, body, wire, text, rl, lineQueue, closed, lines,
                   events, pulls, extraPulls, parsed, timeout, cancel, cause,
                   requestTimeoutMs, other, injected>>

\* Fault: one controller for every sequence of the instance, so that the
\* finally block of one aborts the signal of the other.
ReturnAbortingAll ==
    /\ pc \in {"created", "yielded"}
    /\ pc' = "returned"
    /\ cancel' = FALSE
    /\ aborted' = (aborted \/ (variant = "api" /\ pc = "yielded"))
    /\ other' = IF other = NoOther THEN other ELSE [other EXCEPT !.aborted = TRUE]
    /\ UNCHANGED <<variant, config, pending, path, opts, query, sent, authCalls,
                   status, statusText, body, wire, text, rl, lineQueue, closed,
                   lines, events, failure, failures, pulls, extraPulls, parsed,
                   timeout, cause, requestTimeoutMs, injected>>

\* Fault: a return that lets the loop run through the lines that are left.
ReturnDraining ==
    /\ pc \in {"created", "yielded"}
    /\ pc' = "returned"
    /\ cancel' = FALSE
    /\ parsed' = parsed + Len(lines) + Len(lineQueue)
    /\ lines' = <<>>
    /\ lineQueue' = <<>>
    /\ aborted' = (aborted \/ (variant = "api" /\ pc = "yielded"))
    /\ UNCHANGED <<variant, config, pending, path, opts, query, sent, authCalls,
                   status, statusText, body, wire, text, rl, closed, events,
                   failure, failures, pulls, extraPulls, timeout, cause,
                   requestTimeoutMs, other, injected>>

\* return() on a generator that is suspended: before its start it completes
\* without running; at a yield the return completion leaves the loop, the
\* catch around the yield does not see it, WatchApi's finally block aborts
\* the controller, and the generator completes.  This is also how a
\* return() that waited behind a next() is taken once that next() has its
\* event.
Return ==
    /\ pc \in {"created", "yielded"}
    /\ pc' = "returned"
    /\ cancel' = FALSE
    /\ aborted' = (aborted \/ (variant = "api" /\ pc = "yielded"))
    /\ UNCHANGED <<variant, config, pending, path, opts, query, sent, authCalls,
                   status, statusText, body, wire, text, rl, lineQueue, closed,
                   lines, events, failure, failures, pulls, extraPulls, parsed,
                   timeout, cause,
                   requestTimeoutMs, other, injected>>

\* The caller asks to stop while a next() is pending.  The controller is a
\* local of the generator and the options take no signal, so that what the
\* caller has is return(): it waits behind the pending next().
Cancel ==
    /\ pending
    /\ pc \in {"auth", "fetch", "errtext", "reading", "text"}
    /\ ~cancel
    /\ cancel' = TRUE
    /\ UNCHANGED <<variant, config, pc, pending, path, opts, query, sent,
                   authCalls, status, statusText, body, wire, text, rl, lineQueue,
                   closed, lines, events, failure, failures, pulls, extraPulls,
                   parsed, aborted, timeout, cause,
                   requestTimeoutMs, other, injected>>

\* iterator.throw(e) of the consumer.  On a generator that has not started
\* the exception completes it.  At the yield the exception is raised inside
\* the try block that holds JSON.parse and the yield: the empty catch takes
\* it, and the loop goes on to the next line, so that throw() resolves as a
\* next() would.
Throw ==
    /\ pc \in {"created", "yielded"}
    /\ ~cancel
    /\ ~injected.done
    /\ injected' = [done |-> TRUE, events |-> Len(events)]
    /\ IF pc = "created"
       THEN /\ pc' = "failed"
            /\ pending' = FALSE
            /\ failure' = ForeignError("Error", "injected")
            /\ failures' = failures + 1
            /\ UNCHANGED <<lines, parsed, events>>
       ELSE /\ UNCHANGED <<failure, failures>>
            /\ IF variant = "api"
               THEN /\ pc' = "reading"
                    /\ pending' = TRUE
                    /\ UNCHANGED <<lines, parsed, events>>
               ELSE LET r == RunToYield(lines, 0) IN
                    /\ lines' = r.rest
                    /\ parsed' = parsed + r.tried
                    /\ events' = IF r.found THEN Append(events, r.event)
                                  ELSE events
                    /\ pc' = IF r.found THEN "yielded" ELSE "done"
                    /\ pending' = FALSE
    /\ UNCHANGED <<variant, config, path, opts, query, sent, authCalls, status,
                   statusText, body, wire, text, rl, lineQueue, closed, pulls,
                   extraPulls, aborted, timeout, cancel, cause,
                   requestTimeoutMs, other>>

\* watchApi.setRequestTimeout(timeout): assigns the field of the instance,
\* at any time.
RequestTimeouts == {1000, DefaultTimeoutMs}

SetRequestTimeout ==
    /\ variant = "api"
    /\ \E t \in RequestTimeouts :
        /\ t # requestTimeoutMs
        /\ requestTimeoutMs' = t
    /\ UNCHANGED <<variant, config, pc, pending, path, opts, query, sent,
                   authCalls, status, statusText, body, wire, text, rl, lineQueue,
                   closed, lines, events, failure, failures, pulls, extraPulls,
                   parsed, aborted, timeout, cancel, cause, other, injected>>

\* createWatchIterator(kubeConfig): throws when the KubeConfig has no
\* current cluster; else it returns a WatchIterator whose configuration has
\* the cluster's server and the KubeConfig as authentication method.
CreateWatchIterator ==
    /\ pc = "unmade"
    /\ IF ~config.cluster
       THEN /\ failure' = ForeignError("Error", "No currently active cluster")
            /\ pc' = "thrown"
       ELSE /\ pc' = "idle"
            /\ UNCHANGED failure
    /\ UNCHANGED <<variant, config, pending, path, opts, query, sent, authCalls,
                   status, statusText, body, wire, text, rl, lineQueue, closed,
                   lines, events, failures, pulls, extraPulls, parsed, aborted,
                   timeout, cancel, cause, requestTimeoutMs, other, injected>>

\* The instance and the locals of the sequence that is running.
Self ==
    [variant |-> variant, config |-> config, pc |-> pc, pending |-> pending,
     path |-> path, opts |-> opts, query |-> query, sent |-> sent,
     authCalls |-> authCalls, status |-> status, statusText |-> statusText,
     body |-> body, wire |-> wire, text |-> text, rl |-> rl,
     lineQueue |-> lineQueue, closed |-> closed, lines |-> lines,
     events |-> events, failure |-> failure, failures |-> failures,
     pulls |-> pulls, extraPulls |-> extraPulls, parsed |-> parsed,
     aborted |-> aborted, timeout |-> timeout, cancel |-> cancel,
     cause |-> cause, injected |-> injected]

\* A sequence of instance v with configuration c on which nothing has run.
FreshSequence(v, c) ==
    [variant |-> v, config |-> c, pc |-> "idle", pending |-> FALSE,
     path |-> <<>>, opts |-> NoOptions, query |-> NoQuery, sent |-> <<>>,
     authCalls |-> 0, status |-> 0, statusText |-> "",
     body |-> <<>>, wire |-> <<>>, text |-> <<>>, rl |-> NoReadline,
     lineQueue |-> <<>>, closed |-> FALSE, lines |-> <<>>,
     events |-> <<>>, failure |-> NoFailure, failures |-> 0,
     pulls |-> 0, extraPulls |-> 0, parsed |-> 0,
     aborted |-> FALSE, timeout |-> NoTimeout, cancel |-> FALSE,
     cause |-> NoCause, injected |-> NoThrow]

\* The host goes from one sequence to the other: every generator has its
\* own locals (controller, signal, response, readline, lines), and what the
\* two have in common is the field requestTimeoutMs when they are of one
\* WatchApi instance.
Switch ==
    /\ other # NoOther
    /\ other' = Self
    /\ variant' = other.variant
    /\ config' = other.config
    /\ pc' = other.pc
    /\ pending' = other.pending
    /\ path' = other.path
    /\ opts' = other.opts
    /\ query' = other.query
    /\ sent' = other.sent
    /\ authCalls' = other.authCalls
    /\ status' = other.status
    /\ statusText' = other.statusText
    /\ body' = other.body
    /\ wire' = other.wire
    /\ text' = other.text
    /\ rl' = other.rl
    /\ lineQueue' = other.lineQueue
    /\ closed' = other.closed
    /\ lines' = other.lines
    /\ events' = other.events
    /\ failure' = other.failure
    /\ failures' = other.failures
    /\ pulls' = other.pulls
    /\ extraPulls' = other.extraPulls
    /\ parsed' = other.parsed
    /\ aborted' = other.aborted
    /\ timeout' = other.timeout
    /\ cancel' = other.cancel
    /\ cause' = other.cause
    /\ injected' = other.injected
    /\ UNCHANGED requestTimeoutMs

\* ------------------------------------------------------------- the inputs

\* Every body of at most MaxLen tokens.
ShortBodies == UNION {[1..n -> Tokens] : n \in 0..MaxLen}

\* The bodies of the repository's tests (with "D" and "B" for a DELETED and
\* a BOOKMARK line), a body with CR LF line ends and one with a null line.
TestBodies ==
    {<<"A", "LF", "M", "LF", "D">>,
     <<"A", "LF", "B">>,
     <<"A", "LF", "E">>,
     <<"A", "LF", "X", "LF", "A">>,
     <<"A", "LF", "SP", "SP", "SP", "LF", "LF", "A">>,
     <<"A", "CR", "LF", "M", "CR", "LF">>,
     <<"A", "LF", "N", "LF", "M">>}

Bodies == ShortBodies \cup TestBodies

\* Bodies of the responses that are not 200.
ErrorBodies == {<<>>, <<"X">>, <<"E">>, <<"A", "LF", "M">>}

ErrorStatuses == {404, 500, 599}
Reasons == {"", "Not Here"}

Str12345 == <<"1", "2", "3", "4", "5">>
StrSelector == <<"a", "=", "b">>

\* What a caller may pass as options / queryParams.
RequestOptions ==
    {[resourceVersion |-> rv, labelSelector |-> ls, fieldSelector |-> fs,
      allowWatchBookmarks |-> bm, timeoutMs |-> tm, watch |-> w, pretty |-> pr] :
        rv \in {Absent, Undefined, JsString(<<>>), JsString(Str12345)},
        ls \in {Absent, JsString(<<>>), JsString(StrSelector)},
        fs \in {Absent, JsString(StrSelector)},
        bm \in {Absent, JsBoolean(TRUE), JsBoolean(FALSE)},
        tm \in {Absent, JsNumber(5000)},
        w  \in {Absent, JsString(<<"f", "a", "l", "s", "e">>)},
        pr \in {Absent, JsString(True)}}

\* The query a path may already carry: none, watch twice, a selector.
RequestPaths ==
    {<<>>,
     <<[k |-> "watch", v |-> <<"0">>], [k |-> "watch", v |-> <<"n", "o">>]>>,
     <<[k |-> "labelSelector", v |-> <<"x">>]>>}

PlainOptions == {NoOptions}
PlainPaths == {<<>>}

\* ------------------------------------------------------ the specifications

\* A WatchIterator does not consult the cluster of its authentication
\* method: its server comes from configuration.baseServer.
InitWith(ConfigSet) ==
    /\ InitVars
    /\ other = NoOther
    /\ variant \in Variants
    /\ config \in ConfigSet
    /\ variant = "iter" => config.auth # "kubeconfig" \/ config.cluster

Init == InitWith(Configs)

\* Decoding: every body, with the plain request.
Next ==
    \/ Call(PlainPaths, PlainOptions)
    \/ ApiFirstPull
    \/ IterFirstPull
    \/ AuthDone
    \/ AuthFail
    \/ \E isError \in BOOLEAN : FetchFail(isError)
    \/ Respond({200}, {"OK"}, Bodies)
    \/ Respond(ErrorStatuses, Reasons, ErrorBodies)
    \/ ReadlineData
    \/ ReadlineClose
    \/ TextData
    \/ ApiErrorText
    \/ IterBodyText
    \/ ApiNextLine
    \/ ApiLoopEnd
    \/ Pull
    \/ PullAfterEnd

Spec == Init /\ [][Next]_vars

\* Request building: every options object and path, with a few responses.
InitReq == InitWith(KubeConfigs \cup {[auth |-> "none", cluster |-> FALSE]})

NextReq ==
    \/ Call(RequestPaths, RequestOptions)
    \/ ApiFirstPull
    \/ IterFirstPull
    \/ AuthDone
    \/ AuthFail
    \/ \E isError \in BOOLEAN : FetchFail(isError)
    \/ Respond({200}, {"OK"}, {<<>>, <<"A", "LF", "M">>})
    \/ Respond({404}, {""}, {<<"X">>})
    \/ ReadlineData
    \/ ReadlineClose
    \/ TextData
    \/ ApiErrorText
    \/ IterBodyText
    \/ ApiNextLine
    \/ ApiLoopEnd
    \/ Pull
    \/ PullAfterEnd

SpecReq == InitReq /\ [][NextReq]_vars

\* The life of a session: timeout, early return and cancellation, with a
\* few bodies.
SessionOptions == {NoOptions, [NoOptions EXCEPT !["timeoutMs"] = JsNumber(5000)]}

SessionBodies ==
    {<<>>, <<"A">>, <<"X", "LF", "A">>, <<"A", "LF", "M">>,
     <<"A", "LF", "M", "LF", "D">>}

InitSession == InitWith(Configs)

NextSession ==
    \/ Call(PlainPaths, SessionOptions)
    \/ ApiFirstPull
    \/ IterFirstPull
    \/ AuthDone
    \/ AuthFail
    \/ \E isError \in BOOLEAN : FetchFail(isError)
    \/ Respond({200}, {"OK"}, SessionBodies)
    \/ Respond({404}, {""}, {<<"X">>})
    \/ ReadlineData
    \/ ReadlineClose
    \/ TextData
    \/ ApiErrorText
    \/ IterBodyText
    \/ ApiNextLine
    \/ ApiLoopEnd
    \/ ApiStreamError
    \/ Pull
    \/ PullAfterEnd
    \/ Return
    \/ Cancel
    \/ Timeout
    \/ SetRequestTimeout

SpecSession == InitSession /\ [][NextSession]_vars

\* The same, from createWatchIterator on for a WatchIterator made by it.
InitCreate ==
    \/ InitWith(Configs)
    \/ /\ InitUnmade
       /\ other = NoOther
       /\ variant = "iter"
       /\ config \in {c \in Configs : c.auth = "kubeconfig"}

NextCreate ==
    \/ CreateWatchIterator
    \/ NextSession

SpecCreate == InitCreate /\ [][NextCreate]_vars

\* The same under the scheduling of the host: a continuation of the
\* generator whose awaited promise has settled does run.  Nothing is
\* assumed of the arrival of the response or of its body.
Fairness ==
    /\ WF_vars(ApiNextLine)
    /\ WF_vars(ApiLoopEnd)
    /\ WF_vars(ApiStreamError)
    /\ WF_vars(ApiErrorText)
    /\ WF_vars(IterBodyText)

SpecLive == InitSession /\ [][NextSession]_vars /\ Fairness

\* The same with the timer of the signal: once AbortSignal.timeout has been
\* made, just before the request is sent, it does fire.  Nothing is assumed
\* of the authentication step, which is awaited before the signal is made
\* and settles when the collaborator settles it.
TimerFairness == WF_vars(Timeout)

SpecTimed == InitSession /\ [][NextSession]_vars /\ Fairness /\ TimerFairness

\* A session whose consumer may also inject an exception with throw().
NextConsumer ==
    \/ Throw
    \/ NextSession

SpecConsumer == InitSession /\ [][NextConsumer]_vars

\* Two sequences pulled in any interleaving.
PairBodies == {<<>>, <<"A", "LF", "M">>}

InitPair ==
    /\ InitVars
    /\ variant \in Variants
    /\ config \in KubeConfigs
    /\ other \in {FreshSequence(v, c) : v \in Variants, c \in KubeConfigs}

NextPair ==
    \/ Call(PlainPaths, PlainOptions)
    \/ ApiFirstPull
    \/ IterFirstPull
    \/ AuthDone
    \/ AuthFail
    \/ FetchFail(TRUE)
    \/ Respond({200}, {"OK"}, PairBodies)
    \/ Respond({404}, {""}, {<<"X">>})
    \/ ReadlineData
    \/ ReadlineClose
    \/ TextData
    \/ ApiErrorText
    \/ IterBodyText
    \/ ApiNextLine
    \/ ApiLoopEnd
    \/ ApiStreamError
    \/ Pull
    \/ PullAfterEnd
    \/ Return
    \/ Timeout
    \/ Switch

SpecPair == InitPair /\ [][NextPair]_vars

\* ------------------------------------------- what a body is said to hold
\* The lines of a body and their decoding, stated on the body as a whole
\* and independently of how the two loops read it.

\* The characters that end a line for a variant: readline ends a line at
\* CR, LF and CR LF; split('\n') at LF only.
Terminators(v) == IF v = "api" THEN {"CR", "LF"} ELSE {"LF"}

\* Where the non-empty lines of b start.
LineStarts(v, b) ==
    {i \in 1..Len(b) : b[i] \notin Terminators(v)
                       /\ (i = 1 \/ b[i - 1] \in Terminators(v))}

\* The last position of the line that starts at i.
LineStop(v, b, i) ==
    CHOOSE j \in i..Len(b) :
        /\ \A m \in i..j : b[m] \notin Terminators(v)
        /\ (j = Len(b) \/ b[j + 1] \in Terminators(v))

\* The non-empty lines of b, in the order they occur in b.
WireLines(v, b) ==
    LET starts == LineStarts(v, b)
        nth(n) == CHOOSE i \in starts : Cardinality({j \in starts : j < i}) = n - 1
    IN  [n \in 1..Cardinality(starts) |-> SubSeq(b, nth(n), LineStop(v, b, nth(n)))]

\* The tokens of a line that are not white space.
Content(line) == SelectSeq(line, LAMBDA c : c \notin WhiteSpace)

\* The line is a JSON text: one JSON value, with white space around it.
IsJson(line) == Len(Content(line)) = 1 /\ Content(line)[1] # "X"

\* The line is the JSON text null.
IsJsonNull(line) == IsJson(line) /\ Content(line)[1] = "N"

\* The (type, object) pair of a line that is a JSON text (undefined where
\* the value has no such field).
PairOf(line) ==
    LET val == AtomValue(Content(line)[1])
    IN  [type |-> val.type, object |-> val.object]

Pairs(ls) == [i \in 1..Len(ls) |-> PairOf(ls[i])]

\* The pairs of the lines that are JSON texts.
JsonPairs(v, b) == Pairs(SelectSeq(WireLines(v, b), IsJson))

\* The pairs of the lines that are JSON texts other than null.
NonNullPairs(v, b) ==
    Pairs(SelectSeq(WireLines(v, b), LAMBDA l : IsJson(l) /\ ~IsJsonNull(l)))

IsPrefix(p, q) == Len(p) <= Len(q) /\ p = SubSeq(q, 1, Len(p))

\* The sequence has ended without a failure, on a 200 response.
EndedClean == pc = "done" /\ status = 200

\* ----------------------------------------------------------------- claims

\* C1 (as stated): for every 200 response body, in both variants, the
\* events yielded are exactly the (type, object) pairs of the lines that
\* decode as JSON, in the order of the lines: none reordered, duplicated,
\* merged or omitted.
C1_EventsAreJsonLines ==
    /\ status = 200 => IsPrefix(events, JsonPairs(variant, body))
    /\ EndedClean => events = JsonPairs(variant, body)

\* C1 (amended): the events yielded are exactly the (type, object) pairs of
\* the lines that decode as JSON to a value other than null, in the order
\* of the lines; at every moment they are a prefix of that sequence.
C1_EventsAreNonNullJsonLines ==
    /\ status = 200 => IsPrefix(events, NonNullPairs(variant, body))
    /\ EndedClean => events = NonNullPairs(variant, body)

\* C1 witness: a body with a null line and two different events around it
\* has been read to its end.
C1_Witness ==
    /\ EndedClean
    /\ body = <<"A", "LF", "N", "LF", "M">>
    /\ Len(events) = 2

\* The lines of the body that yield an event.
Yielding(v, b) == SelectSeq(WireLines(v, b), LAMBDA l : IsJson(l) /\ ~IsJsonNull(l))

\* The body holds a line that is white space only, or is not a JSON text.
HasBadLine(v, b) ==
    \/ \E i \in 1..Len(WireLines(v, b)) : ~IsJson(WireLines(v, b)[i])
    \/ \E i \in 1..Len(b) : b[i] \in Terminators(v) /\ (i = 1 \/ b[i - 1] \in Terminators(v))

\* C2: in both variants a line that is empty, white space only or fails
\* JSON parsing contributes no event and raises no error, and does not stop
\* the decoding of later lines: when a 200 body with such lines has been
\* read to its end, no pull has failed and there are as many events as
\* there are lines that decode, the last of them being the last such line.
C2_BadLinesAreSkipped ==
    /\ status = 200 /\ HasBadLine(variant, body) => failure = NoFailure /\ failures = 0
    /\ EndedClean /\ HasBadLine(variant, body) =>
         LET good == Yielding(variant, body) IN
         /\ Len(events) = Len(good)
         /\ good # <<>> => events[Len(events)] = PairOf(good[Len(good)])

\* C2 witness: the body of the tests, a valid line, an invalid line and a
\* valid line, has been read to its end and gave two events.
C2_Witness ==
    /\ EndedClean
    /\ body = <<"A", "LF", "X", "LF", "A">>
    /\ Len(events) = 2

\* C3: every event yielded has a type that is one of ADDED, MODIFIED,
\* DELETED, BOOKMARK, ERROR; a line that parses but is not such an object
\* is dropped.
C3_EventTypesAreRecognized ==
    \A i \in 1..Len(events) :
        events[i].type \in WatchEventType /\ events[i].object # "undefined"

\* A response other than 200 has arrived.
NotOk == status \notin {0, 200}

C5_Non200FailureCarriesBody ==
    NotOk /\ pc = "failed" =>
        /\ failure.hasCode /\ failure.code = status
        /\ failure.message # ""
        /\ failure.hasBody /\ failure.body = body

\* The index in events of the k-th line that yields, and the ERROR lines.
ErrorPositions(seq) == {i \in 1..Len(seq) : seq[i].type = "ERROR"}

\* C6: a line whose type is ERROR, in a 200 response, is yielded as an
\* event of type ERROR with its payload; no pull fails because of it, and
\* the events after it are the ones the rest of the body holds.
C6_ErrorLinesAreEvents ==
    /\ \A i \in ErrorPositions(events) : events[i].object = "status410"
    /\ ErrorPositions(events) # {} => failure = NoFailure /\ pc # "failed"
    /\ status = 200 =>
         ErrorPositions(events) =
            ErrorPositions(NonNullPairs(variant, body)) \cap (1..Len(events))
    /\ EndedClean =>
         /\ ErrorPositions(events) = ErrorPositions(NonNullPairs(variant, body))
         /\ Len(events) = Len(NonNullPairs(variant, body))

\* C6 witness: an ERROR line followed by another line; both were yielded
\* and the sequence ended cleanly.
C6_Witness ==
    /\ EndedClean
    /\ body = <<"E", "LF", "A">>
    /\ Len(events) = 2
    /\ events[1] = [type |-> "ERROR", object |-> "status410"]
    /\ failures = 0

\* C7: a 200 response whose body is empty, or holds no line that yields,
\* never yields and never fails; the sequence ends on the first pull.
C7_EmptyBodyEndsCleanly ==
    status = 200 /\ Yielding(variant, body) = <<>> =>
        /\ events = <<>>
        /\ failure = NoFailure /\ failures = 0
        /\ pc \in {"reading", "text", "done"}
        /\ pulls = 1
        /\ pc = "done" => ~pending

\* C7 witness: the empty body has ended the sequence.
C7_Witness ==
    /\ EndedClean
    /\ body = <<>>
    /\ pulls = 1
    /\ events = <<>>

\* The pairs of q named k.
ValuesOf(q, k) == SelectSeq(q, LAMBDA p : p.k = k)

\* C8: whatever the path and the options, every request sent carries the
\* query parameter watch exactly once, with the value true.
C8_WatchTrueAlways ==
    \A i \in 1..Len(sent) :
        ValuesOf(sent[i].query, "watch") = <<[k |-> "watch", v |-> True]>>

Selectors == {"resourceVersion", "labelSelector", "fieldSelector"}

Supplied(k) == opts[k] \notin {Absent, Undefined}

\* C9: each of resourceVersion, labelSelector and fieldSelector that the
\* caller supplies (the empty string included) is in the request exactly
\* once, with the supplied value; one the caller supplies neither in the
\* options nor in the path is not in the request, and one only the path
\* carries stays as the path has it.
C9_SelectorsOnceOrAbsent ==
    \A i \in 1..Len(sent), k \in Selectors :
        /\ Supplied(k) => ValuesOf(sent[i].query, k) = <<[k |-> k, v |-> opts[k].s]>>
        /\ ~Supplied(k) => ValuesOf(sent[i].query, k) = ValuesOf(path, k)

\* C9 witness: a request was sent for options with an empty
\* resourceVersion, a labelSelector that the path carries too, and no
\* fieldSelector.
C9_Witness ==
    /\ Len(sent) = 1
    /\ opts["resourceVersion"] = JsString(<<>>)
    /\ opts["labelSelector"] = JsString(StrSelector)
    /\ opts["fieldSelector"] = Absent
    /\ ValuesOf(path, "labelSelector") # <<>>
    /\ variant = "iter"

\* C10: when the caller does not specify allowWatchBookmarks, the request
\* carries allowWatchBookmarks=true, in both variants.
C10_BookmarksDefaultTrue ==
    \A i \in 1..Len(sent) :
        ~Supplied("allowWatchBookmarks") =>
            ValuesOf(sent[i].query, "allowWatchBookmarks") =
                <<[k |-> "allowWatchBookmarks", v |-> True]>>

\* The options the request builder is said to recognize as parameters.
Recognized == Selectors \cup {"allowWatchBookmarks"}

\* C11: when the caller passes allowWatchBookmarks as true or as false,
\* every request sent carries allowWatchBookmarks exactly once, with the
\* text of the value passed (true, respectively false).
C11_ExplicitBookmarksCarried ==
    \A i \in 1..Len(sent) :
        opts["allowWatchBookmarks"].t = "boolean" =>
            ValuesOf(sent[i].query, "allowWatchBookmarks") =
                <<[k |-> "allowWatchBookmarks",
                   v |-> ValToString(opts["allowWatchBookmarks"])]>>

\* C12: an option key that is not one of resourceVersion, labelSelector,
\* fieldSelector, allowWatchBookmarks (here pretty), and the client-side
\* timeout option, are never forwarded: in both variants the request has
\* under such a key only what the path itself carries.
C12_OnlyRecognizedForwarded ==
    \A i \in 1..Len(sent), k \in {"pretty", "timeoutMs"} :
        ValuesOf(sent[i].query, k) = ValuesOf(path, k)

\* C13: watch never mutates the options / queryParams object of the caller:
\* from the call on, through every pull and every outcome, no step changes
\* its keys or values.
C13_OptionsNotMutated == [][pc # "idle" => opts' = opts]_vars

\* C13 witness: an options object with two keys, one of them with a
\* default in WatchIterator left out, after a sequence that yielded two
\* events and ended.
C13_Witness ==
    /\ pc = "done"
    /\ Len(events) = 2
    /\ opts["labelSelector"] = JsString(StrSelector)
    /\ opts["allowWatchBookmarks"] = Absent
    /\ opts["timeoutMs"] = Absent
    /\ variant = "iter"

\* The calls of the authentication step an invocation that dispatches makes.
AuthCallsExpected == IF variant = "iter" /\ config.auth = "none" THEN 0 ELSE 1

\* C14 (as stated): within one invocation the authentication step is
\* invoked exactly once, strictly before the request is dispatched, and
\* never again, however many events are pulled.
C14_AuthOnceBeforeDispatch ==
    [][/\ authCalls' # authCalls =>
            authCalls = 0 /\ authCalls' = 1 /\ sent = <<>> /\ sent' = <<>>
       /\ sent' # sent => authCalls' = 1]_vars

\* C14 (amended): when an authentication method is configured the step is
\* invoked exactly once, strictly before the request is dispatched, and
\* never again; a WatchIterator whose configuration has no authentication
\* method dispatches the request without invoking any.
C14_AuthOnceWhenConfigured ==
    [][/\ authCalls' # authCalls =>
            authCalls = 0 /\ authCalls' = 1 /\ sent = <<>> /\ sent' = <<>>
       /\ sent' # sent => authCalls' = AuthCallsExpected]_vars

\* C14 witness: three events were pulled to the end after one
\* authentication call and one request.
C14_Witness ==
    /\ pc = "done"
    /\ Len(events) = 3
    /\ authCalls = 1
    /\ Len(sent) = 1

\* C15: calling watch() performs no authentication call and dispatches no
\* request: as long as the consumer has not pulled, nothing of the request
\* exists, whether the sequence is left alone or returned.
C15_NothingBeforeFirstPull ==
    pulls = 0 =>
        /\ authCalls = 0
        /\ sent = <<>>
        /\ query = NoQuery
        /\ status = 0
        /\ ~timeout.fired
        /\ pc \in {"idle", "created", "returned"}

\* C15 witness: watch() was called with an option and not pulled.
C15_Witness ==
    /\ pc = "created"
    /\ opts["timeoutMs"] # Absent
    /\ pulls = 0

\* C16: when the consumer returns after an event, the return completes
\* without error, no further line is decoded or yielded, and every later
\* pull reports completion.
C16_EarlyReturnEndsQuietly ==
    [][/\ pc' = "returned" =>
            /\ events' = events
            /\ parsed' = parsed
            /\ failures' = failures
            /\ failure' = failure
       /\ pc = "returned" => pc' = "returned"]_vars

\* C16 witness: the consumer returned after the first of three events and
\* pulled once more.
C16_Witness ==
    /\ pc = "returned"
    /\ body = <<"A", "LF", "M", "LF", "D">>
    /\ Len(events) = 1
    /\ extraPulls = 1
    /\ failures = 0

\* The sequence has ended.
Ended == pc \in {"done", "failed", "returned"}

\* C17: however a sequence whose request was dispatched ends, at that
\* point the signal attached to the request has aborted (by the controller
\* or by its timer), in both variants.
C17_SessionDestroyedAtEnd ==
    Ended /\ sent # <<>> => aborted \/ timeout.fired

\* C18: if the timeout elapses before any event has been yielded, while
\* the request is in flight or its open body is awaited, the pending first
\* pull fails, with one failure and no status code; the sequence never
\* ends clean and empty.
C18_TimeoutFailsFirstPull ==
    timeout.fired /\ timeout.open =>
        /\ timeout.at \in {"fetch", "text"} =>
             /\ pc = "failed"
             /\ failures = 1
             /\ ~failure.hasCode
             /\ failure.message = AbortMessage
             /\ events = <<>>
             /\ pulls = 1
        /\ timeout.at = "reading" /\ pulls = 1 /\ events = <<>> =>
             /\ pc \in {"reading", "failed"}
             /\ pc = "failed" => failures = 1 /\ ~failure.hasCode

\* C18 witness: a WatchIterator with a timeoutMs of its caller whose timer
\* fired while the request was in flight.
C18_Witness ==
    /\ variant = "iter"
    /\ timeout.at = "fetch"
    /\ sent[1].timeoutMs # DefaultTimeoutMs
    /\ pc = "failed"

\* C19: a cancellation the caller requests while the first pull is pending
\* and the request is in flight aborts the call.
C19_CallerCancelAborts ==
    cancel /\ pc = "fetch" => aborted

\* C20: when the transport call fails before a response, the first pull
\* fails with one error that has no status code and, the cause being an
\* Error, the cause's message; in WatchIterator it is a WatchError.
C20_TransportFailureCarriesCause ==
    pc = "failed" /\ status = 0 /\ sent # <<>> =>
        /\ failures = 1
        /\ pulls = 1
        /\ events = <<>>
        /\ ~failure.hasCode
        /\ cause.isError => failure.message = cause.message
        /\ variant = "iter" => failure.name = "WatchError"

\* C20 witness: a WatchIterator whose transport rejected with a TLS error,
\* pulled once more after the failure.
C20_Witness ==
    /\ pc = "failed"
    /\ variant = "iter"
    /\ cause = [isError |-> TRUE, message |-> "self-signed certificate"]
    /\ extraPulls = 1

\* C21: when no active cluster is resolvable the failure is raised by the
\* invoking call itself, before any pull, any authentication call and any
\* request.
C21_NoClusterFailsAtCall ==
    failure.message \in {"No active cluster", "No currently active cluster"} =>
        /\ pulls = 0
        /\ authCalls = 0
        /\ sent = <<>>

\* The events of a list of lines, as both loops decode them.
RECURSIVE EventsOfLines(_)
EventsOfLines(ls) ==
    IF ls = <<>> THEN <<>>
    ELSE LET d == DecodeLine(Head(ls)) IN
         IF d.thrown THEN EventsOfLines(Tail(ls))
         ELSE <<d.event>> \o EventsOfLines(Tail(ls))

\* What the buffered variant yields for a body: split, filter, decode.
BufferedEvents(b) == EventsOfLines(NonBlankLines(b))

\* What the streaming variant yields for a body that arrives whole.
StreamedEvents(b) ==
    LET r == ReadlineWrite(NoReadline, b, TRUE)
    IN  EventsOfLines(r.lines \o ReadlineEnd([buf |-> r.buf, sawReturn |-> r.sawReturn]))

\* C22: for the same 200 body (CR, CR LF or LF line ends, blank lines) the
\* streaming and the buffered variant yield the same events: a sequence
\* read to its end has yielded what either variant yields for its body.
C22_StreamedEqualsBuffered ==
    EndedClean => events = StreamedEvents(body) /\ events = BufferedEvents(body)

\* The part of the body that has arrived, and of it the part up to the
\* last LF: the lines that have arrived completely.
Arrived == SubSeq(body, 1, Len(body) - Len(wire))

LastLF(t) ==
    IF \E i \in 1..Len(t) : t[i] = "LF"
    THEN CHOOSE i \in 1..Len(t) : t[i] = "LF" /\ \A j \in (i + 1)..Len(t) : t[j] # "LF"
    ELSE 0

ArrivedEvents == BufferedEvents(SubSeq(Arrived, 1, LastLF(Arrived)))

\* C23: once a line that holds an event has completely arrived and the
\* consumer's first pull is pending, an event is eventually yielded,
\* whether or not the rest of the body ever arrives.
C23_ArrivedEventIsYielded ==
    (status = 200 /\ pending /\ events = <<>> /\ ArrivedEvents # <<>>)
        ~> (events # <<>>)

\* C24: every request goes through the transport of the configuration, and
\* no variant requires a particular authentication object.
C24_InjectedTransportOnly ==
    /\ \A i \in 1..Len(sent) : sent[i].via = "httpApi"
    /\ failure.message # "WatchApi requires KubeConfig as the authentication method"

\* What a sequence shows when it is pulled alone: the events of its own
\* body in order, all of them at a clean end; the status of its own
\* response in its failure; a signal that only its own end or its own timer
\* aborts; at most one failure.
SeqAlone(s) ==
    /\ s.status = 200 => IsPrefix(s.events, NonNullPairs(s.variant, s.body))
    /\ s.pc = "done" /\ s.status = 200 => s.events = NonNullPairs(s.variant, s.body)
    /\ s.status \notin {0, 200} /\ s.pc = "failed" /\ ~s.timeout.fired =>
         s.failure.hasCode /\ s.failure.code = s.status /\ s.events = <<>>
    /\ s.aborted => s.pc \in {"done", "failed", "returned"}
    /\ s.pc = "returned" => s.failures = 0
    /\ s.failures <= 1
    /\ s.timeout.fired => s.sent # <<>>

\* C25: two sequences pulled in any interleaving each yield the events and
\* the outcome they yield alone, and a step of one (its end, its failure,
\* its early return included) leaves the other as it was.  The host can
\* always go to the other sequence, so that every state is the start of a
\* step.
C25_SequencesIndependent ==
    [][/\ SeqAlone(Self)
       /\ SeqAlone(other)
       /\ other' # other => other' = Self /\ Self' = other]_vars

\* C25 witness: a WatchApi sequence returned early after its first event,
\* and a second WatchApi sequence read its body to the end.
C25_Witness ==
    /\ other # NoOther
    /\ other.variant = "api" /\ other.pc = "returned" /\ Len(other.events) = 1
    /\ variant = "api" /\ pc = "done" /\ Len(events) = 2

\* C26: every failure of WatchIterator.watch is a WatchError and every
\* failure of WatchApi.watch is an ApiException.
C26_DocumentedErrorType ==
    pc = "failed" =>
        failure.name = IF variant = "iter" THEN "WatchError" ELSE "ApiException"

\* The body ends in a line without line terminator.
Unterminated(v, b) == b # <<>> /\ b[Len(b)] \notin Terminators(v)

FinalLine(v, b) == WireLines(v, b)[Len(WireLines(v, b))]

\* C27: a final line without terminator is attempted once: at the clean
\* end it is the last event if it decodes, it gives nothing and no failure
\* if it does not, and no event is there twice; a body that is one such
\* line was handed to the decoder once (WatchIterator: not at all when it
\* is white space only).
C27_FinalLineAttemptedOnce ==
    EndedClean /\ Unterminated(variant, body) =>
        LET last == FinalLine(variant, body) IN
        /\ failures = 0 /\ failure = NoFailure
        /\ Len(events) = Len(Yielding(variant, body))
        /\ IsJson(last) /\ ~IsJsonNull(last) =>
             events # <<>> /\ events[Len(events)] = PairOf(last)
        /\ ~(IsJson(last) /\ ~IsJsonNull(last)) =>
             events = Pairs(SelectSeq(Yielding(variant, body), LAMBDA l : l # last))
        /\ (\A i \in 1..Len(body) : body[i] \notin LineTerminators) =>
             parsed = IF variant = "iter" /\ Trim(body) = <<>> THEN 0 ELSE 1

\* C27 witness: the body of the tests, three lines of which the last has
\* no terminator, read to its end by WatchApi.
C27_Witness ==
    /\ EndedClean
    /\ variant = "api"
    /\ body = <<"A", "LF", "M", "LF", "D">>
    /\ events[Len(events)] = [type |-> "DELETED", object |-> "pod1"]

\* C28: a sequence surfaces at most one failure: once it has ended (failed,
\* completed or returned) no step yields an event or raises again, and
\* later pulls leave it ended; a sequence has failed exactly when one pull
\* was rejected.
C28_OneTerminalFailure ==
    [][/\ Ended => /\ pc' = pc
                   /\ events' = events
                   /\ failures' = failures
                   /\ failure' = failure
       /\ failures' <= 1
       /\ pc' = "failed" <=> failures' = 1]_vars

\* C28 witness: a WatchApi whose request timed out in flight, pulled once
\* more after the failure.
C28_Witness ==
    /\ pc = "failed"
    /\ variant = "api"
    /\ timeout.at = "fetch"
    /\ failures = 1
    /\ extraPulls = 1

\* C29: an invocation dispatches one request, a GET, and never another:
\* after a transport failure, a non-200 status, a timeout or the end of
\* the body the list of requests sent stays as it was.
C29_OneGetNeverResent ==
    [][/\ Len(sent') <= 1
       /\ \A i \in 1..Len(sent') : sent'[i].method = "GET"
       /\ sent # <<>> => sent' = sent
       /\ (status' # 0 \/ cause' # NoCause \/ timeout'.fired) => Len(sent') = 1]_vars

\* C29 witness: a WatchIterator whose one request got a 404, pulled once
\* more after the failure.
C29_Witness ==
    /\ pc = "failed"
    /\ variant = "iter"
    /\ status \notin {0, 200}
    /\ Len(sent) = 1
    /\ extraPulls = 1

\* The timeout that governs the invocation: that of the request sent, or
\* the one a request sent now would get.
GoverningTimeout ==
    IF sent # <<>> THEN sent[1].timeoutMs ELSE TimeoutOf(variant, opts)

\* C30: from the call of watch() on, a call of setRequestTimeout does not
\* change the timeout that governs the sequence, whether or not it has
\* been pulled.
C30_TimeoutFixedAtCall ==
    [][variant = "api" /\ pc # "idle" /\ ~Ended =>
           GoverningTimeout' = GoverningTimeout]_vars

\* C31: an exception the consumer injects with throw() is not swallowed:
\* after it no further event is yielded, and the sequence neither yields
\* again nor completes as if nothing had happened.
C31_InjectedThrowTerminates ==
    injected.done =>
        /\ Len(events) = injected.events
        /\ pc \notin {"yielded", "done", "returned"}

\* C32: with a transport that honours the abort signal every pull that is
\* pending is resolved in the end, with an event, with the completion or
\* with a failure, the wait for the authentication step included.
C32_EveryPullResolves == pending ~> ~pending

=============================================================================
